---- MODULE Spec2Model ----
(***************************************************************************)
(* Model of the analysis wizard of ritadel's web UI                        *)
(* (src/webui/src/pages/analysis.js, component Analysis) together with the *)
(* response post-processing of the API helper (src/unnamed/part_004,       *)
(* runAnalysis).                                                           *)
(*                                                                         *)
(* Strings are sequences of one-character strings, so that split, trim and *)
(* toUpperCase are computed as JavaScript computes them.  The signal       *)
(* strings '买入', '卖出', '中性' are written "Buy", "Sell", "Neutral".        *)
(***************************************************************************)
EXTENDS Integers, Sequences, FiniteSets, TLC

(***************************************************************************)
(* Bounds                                                                  *)
(***************************************************************************)
\* number of analysts of each category of the catalog kept in the model
NumGrowth == 1
NumValue == 1
\* number of analyses the user starts in one behaviour
MaxRuns == 1
\* length of the raw ticker input typed character by character (ParseSpec)
MaxRawLen == 3

(***************************************************************************)
(* Characters and JavaScript string functions                              *)
(***************************************************************************)
Letters == {"A", "B", "C", "D", "a"}
Chars == Letters \cup {",", " "}

\* \s of a regular expression, and what String.prototype.trim removes
IsWhitespace(c) == c = " "
\* the character class [,\s]
IsCommaOrSpace(c) == c = "," \/ IsWhitespace(c)

\* String.prototype.toUpperCase, character by character
UpperChar(c) == IF c = "a" THEN "A" ELSE c
toUpperCase(s) == [i \in 1..Len(s) |-> UpperChar(s[i])]

RECURSIVE TrimStart(_)
TrimStart(s) ==
  IF s # <<>> /\ IsWhitespace(Head(s)) THEN TrimStart(Tail(s)) ELSE s

RECURSIVE TrimEnd(_)
TrimEnd(s) ==
  IF s # <<>> /\ IsWhitespace(s[Len(s)])
  THEN TrimEnd(SubSeq(s, 1, Len(s) - 1))
  ELSE s

\* String.prototype.trim
trim(s) == TrimEnd(TrimStart(s))

RECURSIVE SkipSeparators(_)
SkipSeparators(s) ==
  IF s # <<>> /\ IsCommaOrSpace(Head(s)) THEN SkipSeparators(Tail(s)) ELSE s

\* input.split(/[,\s]+/): cur is the token being read
RECURSIVE SplitCommaSpace(_, _)
SplitCommaSpace(s, cur) ==
  IF s = <<>> THEN <<cur>>
  ELSE IF IsCommaOrSpace(Head(s))
       THEN <<cur>> \o SplitCommaSpace(SkipSeparators(s), <<>>)
       ELSE SplitCommaSpace(Tail(s), Append(cur, Head(s)))

\* input.split(','): every comma separates, empty tokens are kept
RECURSIVE SplitComma(_, _)
SplitComma(s, cur) ==
  IF s = <<>> THEN <<cur>>
  ELSE IF Head(s) = ","
       THEN <<cur>> \o SplitComma(Tail(s), <<>>)
       ELSE SplitComma(Tail(s), Append(cur, Head(s)))

\* Array.prototype.filter(t => t.trim() !== '')
RECURSIVE FilterNonEmpty(_)
FilterNonEmpty(ts) ==
  IF ts = <<>> THEN <<>>
  ELSE IF trim(Head(ts)) # <<>>
       THEN <<Head(ts)>> \o FilterNonEmpty(Tail(ts))
       ELSE FilterNonEmpty(Tail(ts))

\* analysis.js:319  parseTickerInput
parseTickerInput(input) ==
  LET kept == FilterNonEmpty(SplitCommaSpace(input, <<>>))
  IN  [i \in 1..Len(kept) |-> toUpperCase(trim(kept[i]))]

\* analysis.js:337, 382, 1211  tickers.split(',').map(t => t.trim())
tickerList(raw) ==
  LET parts == SplitComma(raw, <<>>)
  IN  [i \in 1..Len(parts) |-> trim(parts[i])]

\* Array.prototype.join(',')
RECURSIVE JoinComma(_)
JoinComma(ts) ==
  IF ts = <<>> THEN <<>>
  ELSE IF Len(ts) = 1 THEN Head(ts)
       ELSE Head(ts) \o <<",">> \o JoinComma(Tail(ts))

Range(s) == {s[i] : i \in 1..Len(s)}
NoDuplicates(s) == \A i, j \in 1..Len(s) : s[i] = s[j] => i = j
Min(a, b) == IF a < b THEN a ELSE b

(***************************************************************************)
(* The analyst catalog (analysis.js:84-114), cut to NumGrowth + NumValue   *)
(* analysts; an analyst object is identified by its value                  *)
(***************************************************************************)
growthAnalysts ==
  SubSeq(<<"cathie_wood_agent", "phil_fisher_agent", "bill_ackman_agent">>,
         1, Min(NumGrowth, 3))

valueAnalysts ==
  SubSeq(<<"warren_buffett_agent", "charlie_munger_agent",
           "ben_graham_agent", "peter_lynch_agent">>,
         1, Min(NumValue, 4))

analystCategories == [growth |-> growthAnalysts, value |-> valueAnalysts]
analystOptions == analystCategories.growth \o analystCategories.value

\* Array.prototype.filter over a sequence of analysts: keep those in keep
RECURSIVE FilterIn(_, _)
FilterIn(s, keep) ==
  IF s = <<>> THEN <<>>
  ELSE IF Head(s) \in keep
       THEN <<Head(s)>> \o FilterIn(Tail(s), keep)
       ELSE FilterIn(Tail(s), keep)

(***************************************************************************)
(* Values                                                                  *)
(***************************************************************************)
Signals == {"Buy", "Sell", "Neutral"}
Null == [isNull |-> TRUE]

\* A JavaScript object used as a map is a sequence of <<key, value>> with
\* distinct keys, in insertion order (the order of Object.entries)
ObjHas(o, k) == \E i \in 1..Len(o) : o[i][1] = k
ObjGet(o, k) == o[CHOOSE i \in 1..Len(o) : o[i][1] = k][2]
\* A value that is either an array or an object carries its kind: an array
\* is [array |-> <<elements>>], an object is a record of its properties
Arr(s) == [array |-> s]
Array_isArray(v) == "array" \in DOMAIN v
\* o[k] = v
ObjSet(o, k, v) ==
  IF ObjHas(o, k)
  THEN [i \in 1..Len(o) |-> IF o[i][1] = k THEN <<k, v>> ELSE o[i]]
  ELSE Append(o, <<k, v>>)

\* the raw strings the user enters in the ticker field of the wizard
RawInputs ==
  { <<>>,                                               \* ""
    <<" ">>,                                            \* " "
    <<",">>,                                            \* ","
    <<"A">>,                                            \* "A"
    <<"A", ",", "a">>,                                  \* "A,a"
    <<"A", " ", "a", " ", "B">>,                        \* "A a B"
    <<"A", " ", "B">>,                                  \* "A B"
    <<"A", ",", "B">>,                                  \* "A,B"
    <<"A", ",", "B", ",", "C", ",", "D">>,              \* "A,B,C,D"
    <<"A", ",", "A", ",", "A", ",", "A">> }             \* "A,A,A,A"

\* "AAPL, aapl , MSFT" with A for AAPL and B for MSFT
ExampleInput == <<"A", ",", " ", "a", " ", ",", " ", "B">>

\* the error messages of setAnalysisError
ErrNoTicker == "noTicker"      \* analysis.js:254, 443
ErrTooMany == "tooMany"        \* analysis.js:260, 449
ErrNoAnalyst == "noAnalyst"    \* analysis.js:268, 454
ErrRequest == "requestError"   \* analysis.js:402
NoError == "null"

(***************************************************************************)
(* State of the component Analysis (analysis.js:183-190) and of the        *)
(* requests it has issued                                                  *)
(***************************************************************************)
VARIABLES
  activeStep,        \* useState(0)
  tickers,           \* useState('')
  selectedAnalysts,  \* useState([])
  isAnalyzing,       \* useState(false)
  analysisError,     \* useState(null)
  progress,          \* useState({})
  analysisResults,   \* useState(null)
  isFormValid,       \* useState(false), set by the effect of line 224
  requests,          \* the fetch promises and timers of handleStartAnalysis
  runs,              \* number of analyses started
  shown              \* the run whose callback set analysisResults

\* State of the orchestration engine behind the API (sections 4.2 to 4.6 of
\* the specification); it is idle while the wizard alone is studied
VARIABLES
  analysisRun,       \* the AnalysisRun being served, Null when idle
  tasks,             \* AnalysisRun.tasks: (ticker, analyst) -> AnalysisTask
  tracker,           \* ProgressTracker: (analyst, ticker) -> progress record
  response,          \* the response payload of the run, Null until produced
  votes,             \* ResultAggregator: the signals collected for one ticker
  overall,           \* ResultAggregator: the analysis object of that ticker
  rt                 \* RoundTableCoordinator: the round-table run

server == <<analysisRun, tasks, tracker, response, votes, overall, rt>>

vars == <<activeStep, tickers, selectedAnalysts, isAnalyzing, analysisError,
          progress, analysisResults, isFormValid, requests, runs, shown,
          server>>

\* analysis.js:224-245: the effect that recomputes isFormValid
FormValid(step, tk, sel) ==
  CASE step = 0 -> trim(tk) # <<>> /\ Len(parseTickerInput(tk)) <= 3
    [] step = 1 -> Len(sel) > 0
    [] OTHER -> FALSE

\* analysis.js:323
currentTickers == parseTickerInput(tickers)

\* analysis.js:1098, 1203, 1208: which of the three views is rendered
WizardShown == ~isAnalyzing /\ activeStep < 2
ResultsShown == ~WizardShown /\ activeStep = 2 /\ analysisResults # Null
ProgressShown == ~WizardShown /\ ~ResultsShown

Init ==
  /\ activeStep = 0
  /\ tickers = <<>>
  /\ selectedAnalysts = <<>>
  /\ isAnalyzing = FALSE
  /\ analysisError = NoError
  /\ progress = <<>>
  /\ analysisResults = Null
  /\ isFormValid = FormValid(0, <<>>, <<>>)
  /\ requests = {}
  /\ runs = 0
  /\ shown = Null
  /\ analysisRun = Null
  /\ tasks = <<>>
  /\ tracker = <<>>
  /\ response = Null
  /\ votes = <<>>
  /\ overall = Null
  /\ rt = Null

(***************************************************************************)
(* The ticker field                                                        *)
(***************************************************************************)
\* analysis.js:532  onChange={(e) => setTickers(e.target.value)}
SetTickers(v) ==
  /\ tickers' = v
  /\ isFormValid' = FormValid(activeStep, v, selectedAnalysts)
  /\ UNCHANGED <<activeStep, selectedAnalysts, isAnalyzing, analysisError,
                 progress, analysisResults, requests, runs, shown, server>>

\* a variant of ChangeTickers whose field is rendered at step 0 whatever
\* the view, also while an analysis is in progress
ChangeTickersAnyView ==
  /\ activeStep = 0
  /\ \E v \in RawInputs : v # tickers /\ SetTickers(v)

ChangeTickers ==
  /\ WizardShown /\ activeStep = 0
  /\ \E v \in RawInputs : v # tickers /\ SetTickers(v)

(***************************************************************************)
(* Navigation                                                              *)
(***************************************************************************)
\* a variant of handleNext whose button is also the button of the last step
handleNextAnyStep ==
  /\ WizardShown /\ isFormValid
  /\ IF activeStep = 0 /\ trim(tickers) = <<>>
     THEN /\ analysisError' = ErrNoTicker
          /\ UNCHANGED <<activeStep, isFormValid>>
     ELSE IF activeStep = 0 /\ Len(parseTickerInput(tickers)) > 3
     THEN /\ analysisError' = ErrTooMany
          /\ UNCHANGED <<activeStep, isFormValid>>
     ELSE IF activeStep = 1 /\ Len(selectedAnalysts) = 0
     THEN /\ analysisError' = ErrNoAnalyst
          /\ UNCHANGED <<activeStep, isFormValid>>
     ELSE /\ analysisError' = NoError
          /\ activeStep' = activeStep + 1
          /\ isFormValid' = FormValid(activeStep + 1, tickers, selectedAnalysts)
  /\ UNCHANGED <<tickers, selectedAnalysts, isAnalyzing, progress,
                 analysisResults, requests, runs, shown, server>>

\* analysis.js:247-277
handleNext ==
  /\ WizardShown /\ activeStep = 0 /\ isFormValid
  /\ IF activeStep = 0 /\ trim(tickers) = <<>>
     THEN /\ analysisError' = ErrNoTicker
          /\ UNCHANGED <<activeStep, isFormValid>>
     ELSE IF activeStep = 0 /\ Len(parseTickerInput(tickers)) > 3
     THEN /\ analysisError' = ErrTooMany
          /\ UNCHANGED <<activeStep, isFormValid>>
     ELSE IF activeStep = 1 /\ Len(selectedAnalysts) = 0
     THEN /\ analysisError' = ErrNoAnalyst
          /\ UNCHANGED <<activeStep, isFormValid>>
     ELSE /\ analysisError' = NoError
          /\ activeStep' = activeStep + 1
          /\ isFormValid' = FormValid(activeStep + 1, tickers, selectedAnalysts)
  /\ UNCHANGED <<tickers, selectedAnalysts, isAnalyzing, progress,
                 analysisResults, requests, runs, shown, server>>

\* a variant of handleBack whose button is enabled at every step
handleBackAnyStep ==
  /\ WizardShown
  /\ activeStep' = activeStep - 1
  /\ isFormValid' = FormValid(activeStep - 1, tickers, selectedAnalysts)
  /\ UNCHANGED <<tickers, selectedAnalysts, isAnalyzing, analysisError,
                 progress, analysisResults, requests, runs, shown, server>>

\* analysis.js:279-281, button enabled for index 1 only (line 1182)
handleBack ==
  /\ WizardShown /\ activeStep = 1
  /\ activeStep' = activeStep - 1
  /\ isFormValid' = FormValid(activeStep - 1, tickers, selectedAnalysts)
  /\ UNCHANGED <<tickers, selectedAnalysts, isAnalyzing, analysisError,
                 progress, analysisResults, requests, runs, shown, server>>

\* a variant of handleReset that also clears the message and the results of
\* the run before
handleResetClearsRun ==
  /\ activeStep' = 0
  /\ analysisError' = NoError
  /\ analysisResults' = Null
  /\ isFormValid' = FormValid(0, tickers, selectedAnalysts)
  /\ UNCHANGED <<tickers, selectedAnalysts, isAnalyzing, progress, runs,
                 shown, server>>

\* analysis.js:283-285
handleReset ==
  /\ activeStep' = 0
  /\ isFormValid' = FormValid(0, tickers, selectedAnalysts)
  /\ UNCHANGED <<tickers, selectedAnalysts, isAnalyzing, analysisError,
                 progress, analysisResults, runs, shown, server>>

\* analysis.js:1206  onNewAnalysis={handleReset}
NewAnalysis ==
  /\ ResultsShown
  /\ handleReset
  /\ UNCHANGED requests

\* a variant of CancelRun that also clears isAnalyzing, so that the wizard
\* is rendered again while the request is pending
CancelRunShowsWizard ==
  /\ ProgressShown
  /\ activeStep' = 0
  /\ isAnalyzing' = FALSE
  /\ isFormValid' = FormValid(0, tickers, selectedAnalysts)
  /\ requests' = {[r EXCEPT !.cancelled = TRUE] : r \in requests}
  /\ UNCHANGED <<tickers, selectedAnalysts, analysisError, progress,
                 analysisResults, runs, shown, server>>

\* analysis.js:1214  onCancel={handleReset}; the requests in flight are
\* marked as cancelled by the user (the code keeps no such mark)
CancelRun ==
  /\ ProgressShown
  /\ handleReset
  /\ requests' = {[r EXCEPT !.cancelled = TRUE] : r \in requests}

(***************************************************************************)
(* Analyst selection (step 1 of the wizard)                                *)
(***************************************************************************)
SetSelectedAnalysts(sel) ==
  /\ selectedAnalysts' = sel
  /\ isFormValid' = FormValid(activeStep, tickers, sel)
  /\ UNCHANGED <<activeStep, tickers, isAnalyzing, analysisError, progress,
                 analysisResults, requests, runs, shown, server>>

\* analysis.js:288-295
handleAnalystToggle(analyst) ==
  /\ WizardShown /\ activeStep = 1
  /\ IF analyst \in Range(selectedAnalysts)
     THEN SetSelectedAnalysts(
            FilterIn(selectedAnalysts, Range(selectedAnalysts) \ {analyst}))
     ELSE SetSelectedAnalysts(Append(selectedAnalysts, analyst))

\* a variant of handleCategorySelectAll that, when the whole category is
\* selected, clears the selection instead of removing the category from it
handleCategorySelectAllClearsAll(category) ==
  /\ WizardShown /\ activeStep = 1
  /\ LET categoryAnalysts == analystCategories[category]
         allSelected ==
           \A i \in 1..Len(categoryAnalysts) :
              categoryAnalysts[i] \in Range(selectedAnalysts)
     IN  IF allSelected
         THEN SetSelectedAnalysts(<<>>)
         ELSE SetSelectedAnalysts(
                selectedAnalysts \o
                FilterIn(categoryAnalysts,
                         Range(categoryAnalysts) \ Range(selectedAnalysts)))

\* analysis.js:298-316
handleCategorySelectAll(category) ==
  /\ WizardShown /\ activeStep = 1
  /\ LET categoryAnalysts == analystCategories[category]
         allSelected ==
           \A i \in 1..Len(categoryAnalysts) :
              categoryAnalysts[i] \in Range(selectedAnalysts)
     IN  IF allSelected
         THEN SetSelectedAnalysts(
                FilterIn(selectedAnalysts,
                         Range(selectedAnalysts) \ Range(categoryAnalysts)))
         ELSE SetSelectedAnalysts(
                selectedAnalysts \o
                FilterIn(categoryAnalysts,
                         Range(categoryAnalysts) \ Range(selectedAnalysts)))

\* analysis.js:433-439
handleSelectAllAnalysts ==
  /\ WizardShown /\ activeStep = 1
  /\ IF Len(selectedAnalysts) = Len(analystOptions)
     THEN SetSelectedAnalysts(<<>>)
     ELSE SetSelectedAnalysts(analystOptions)

(***************************************************************************)
(* Starting an analysis                                                    *)
(***************************************************************************)
\* analysis.js:441-459: the message validateInputs sets, NoError if it passes
ValidationError(tk, sel) ==
  IF trim(tk) = <<>> THEN ErrNoTicker
  ELSE IF Len(parseTickerInput(tk)) > 3 THEN ErrTooMany
  ELSE IF Len(sel) = 0 THEN ErrNoAnalyst
  ELSE NoError

validateInputs(tk, sel) == ValidationError(tk, sel) = NoError

\* analysis.js:337-347
initialProgress(tk, sel) ==
  LET ticker_list == tickerList(tk)
  IN  [a \in Range(sel) |->
        [t \in Range(ticker_list) |-> [status |-> "started", percent |-> 10]]]

\* the runs of a behaviour, numbered in the order they start
RunIds == 1..MaxRuns

\* analysis.js:351-358: the fetch of a run with the values its callbacks
\* close over; cancelled records a Cancel of the user while it is in flight
NewRequest(id, tk, sel) ==
  [id |-> id, tickers |-> tk, analysts |-> sel, phase |-> "pending",
   data |-> Null, real |-> <<>>, cancelled |-> FALSE]

\* analysis.js:325-431 up to the fetch call; the start button is the button
\* of the last step (line 1155) and is disabled unless isFormValid (1177)
handleStartAnalysis ==
  /\ WizardShown /\ activeStep = 1 /\ isFormValid
  /\ IF validateInputs(tickers, selectedAnalysts)
     THEN /\ isAnalyzing' = TRUE
          /\ analysisError' = NoError
          /\ progress' = initialProgress(tickers, selectedAnalysts)
          /\ requests' = requests \cup
                           {NewRequest(runs + 1, tickers, selectedAnalysts)}
          /\ runs' = runs + 1
     ELSE /\ analysisError' = ValidationError(tickers, selectedAnalysts)
          /\ UNCHANGED <<isAnalyzing, progress, requests, runs>>
  /\ UNCHANGED <<activeStep, tickers, selectedAnalysts, analysisResults,
                 isFormValid, shown, server>>

\* the user starts at most MaxRuns analyses
StartAnalysis ==
  /\ runs < MaxRuns
  /\ handleStartAnalysis

(***************************************************************************)
(* The backend behind POST /api/analysis.  Its code is not part of the     *)
(* sources; it is modelled from sections 4.1, 4.2 and 6 of the             *)
(* specification.                                                          *)
(***************************************************************************)
RECURSIVE Dedupe(_)
Dedupe(s) ==
  IF s = <<>> THEN <<>>
  ELSE LET front == Dedupe(SubSeq(s, 1, Len(s) - 1))
       IN  IF s[Len(s)] \in Range(front) THEN front
           ELSE Append(front, s[Len(s)])

\* TickerSet.parse: split, trim, upper-case, drop empties, deduplicate
TickerSetParse(raw) == Dedupe(parseTickerInput(raw))

\* the request passes the validation of the backend (400 otherwise)
BackendAccepts(r) ==
  /\ TickerSetParse(r.tickers) # <<>>
  /\ Len(TickerSetParse(r.tickers)) <= 3
  /\ r.analysts # <<>>

\* TaskScheduler: one task per pair, tickers outer loop, analysts inner loop
TaskOrder(ts, as) ==
  [n \in 1..(Len(ts) * Len(as)) |->
     <<ts[((n - 1) \div Len(as)) + 1], as[((n - 1) % Len(as)) + 1]>>]

\* the confidences an analyst reports in the model
ConfidenceSamples == {80}

\* AgentRuntime.analyze: the entry of analyst a for ticker t
AgentEntry(t, a, sig, conf) ==
  [agent_name |-> a, signal |-> sig, confidence |-> conf,
   reasoning |-> [kind |-> "analysis", analyst |-> a, ticker |-> t]]

\* the results of the first k tasks, by pair
RealResults(r, k, sig, conf) ==
  LET order == TaskOrder(TickerSetParse(r.tickers), r.analysts)
  IN  [p \in {order[n] : n \in 1..k} |-> AgentEntry(p[1], p[2], sig[p[2]], conf)]

\* the response body of section 6: per ticker, the entries in selection order
ResponseBody(r, sig, conf) ==
  LET ts == TickerSetParse(r.tickers)
  IN  [ticker_analyses |->
         [n \in 1..Len(ts) |->
            <<ts[n], Arr([i \in 1..Len(r.analysts) |->
                       AgentEntry(ts[n], r.analysts[i], sig[r.analysts[i]], conf)])>>]]

\* a JSON body that has no ticker_analyses
BodyWithoutAnalyses == [message |-> "no analyses"]

HasTickerAnalyses(d) == "ticker_analyses" \in DOMAIN d

\* analysis.js:359-397: the response is OK and its JSON body has
\* ticker_analyses; the second then-callback starts the 3000 ms timer
FetchResolve(id) ==
  /\ \E r \in requests :
       /\ r.id = id /\ r.phase = "pending"
       /\ BackendAccepts(r)
       /\ \E sig \in [Range(r.analysts) -> Signals], conf \in ConfidenceSamples :
            requests' = (requests \ {r}) \cup
              {[r EXCEPT !.phase = "timerOk",
                         !.data = ResponseBody(r, sig, conf),
                         !.real = RealResults(r,
                                    Len(TickerSetParse(r.tickers)) * Len(r.analysts),
                                    sig, conf)]}
  /\ UNCHANGED <<activeStep, tickers, selectedAnalysts, isAnalyzing,
                 analysisError, progress, analysisResults, isFormValid,
                 runs, shown, server>>

\* analysis.js:359-397: the response is OK and its JSON body has no
\* ticker_analyses; the second then-callback starts the 3000 ms timer
FetchResolveWithoutAnalyses(id) ==
  /\ \E r \in requests :
       /\ r.id = id /\ r.phase = "pending"
       /\ requests' = (requests \ {r}) \cup
            {[r EXCEPT !.phase = "timerOk", !.data = BodyWithoutAnalyses]}
  /\ UNCHANGED <<activeStep, tickers, selectedAnalysts, isAnalyzing,
                 analysisError, progress, analysisResults, isFormValid,
                 runs, shown, server>>

\* analysis.js:360-362, 398-405: the fetch rejects or the response is not
\* OK; the catch-callback sets the error and starts the 5000 ms timer.  The
\* backend had completed its first k tasks, each with signal s.
FetchReject(id) ==
  /\ \E r \in requests :
       /\ r.id = id /\ r.phase = "pending"
       /\ \E k \in 0..(Len(TickerSetParse(r.tickers)) * Len(r.analysts)),
             s \in Signals, conf \in ConfidenceSamples :
            /\ (~BackendAccepts(r) => k = 0)
            /\ requests' = (requests \ {r}) \cup
                 {[r EXCEPT !.phase = "timerErr",
                            !.real = RealResults(r, k,
                                       [a \in Range(r.analysts) |-> s], conf)]}
  /\ analysisError' = ErrRequest
  /\ UNCHANGED <<activeStep, tickers, selectedAnalysts, isAnalyzing, progress,
                 analysisResults, isFormValid, runs, shown, server>>

(***************************************************************************)
(* The timer callbacks of handleStartAnalysis                              *)
(***************************************************************************)
\* analyst.label, and getAnalystDisplayName (analysis.js:1378-1389)
analystLabel(a) == <<"label", a>>
getAnalystDisplayName(agentName) == <<"display", agentName>>

\* two successive results of Math.random(), in hundredths: the first decides
\* the signal (line 386), the second the confidence (line 387)
RandomDraws == {<<75, 0>>, <<25, 99>>}

\* Math.random() > 0.5 ? '买入' : '卖出'
RandomSignal(r) == IF r > 50 THEN "Buy" ELSE "Sell"
\* Math.round(Math.random() * 40 + 60)
RandomConfidence(r) == (r * 40 + 6000 + 50) \div 100

\* a variant of FallbackEntries that walks the catalog and keeps the selected
\* analysts, instead of walking the selection
FallbackEntriesCatalogOrder(ticker, analysts, draw) ==
  LET byCatalog == FilterIn(analystOptions, Range(analysts))
  IN  Arr([i \in 1..Len(byCatalog) |->
             [agent_name |-> byCatalog[i],
              signal |-> RandomSignal(draw[i][1]),
              confidence |-> RandomConfidence(draw[i][2]),
              reasoning |-> [kind |-> "fallback",
                             analyst |-> analystLabel(byCatalog[i]),
                             ticker |-> ticker]]])

\* analysis.js:384-389: the entries of one ticker; draw[i] is the pair of
\* random numbers of the i-th analyst
FallbackEntries(ticker, analysts, draw) ==
  Arr([i \in 1..Len(analysts) |->
         [agent_name |-> analysts[i],
          signal |-> RandomSignal(draw[i][1]),
          confidence |-> RandomConfidence(draw[i][2]),
          reasoning |-> [kind |-> "fallback",
                         analyst |-> analystLabel(analysts[i]),
                         ticker |-> ticker]]])

\* analysis.js:382-390: ticker_list.forEach over the first n tickers
RECURSIVE FallbackAnalyses(_, _, _, _)
FallbackAnalyses(ticker_list, n, analysts, draws) ==
  IF n = 0 THEN <<>>
  ELSE ObjSet(FallbackAnalyses(ticker_list, n - 1, analysts, draws),
              ticker_list[n],
              FallbackEntries(ticker_list[n], analysts, draws[n]))

\* analysis.js:378-390
fallbackData(r, draws) ==
  LET ticker_list == tickerList(r.tickers)
  IN  [ticker_analyses |->
         FallbackAnalyses(ticker_list, Len(ticker_list), r.analysts, draws)]

\* the random numbers one evaluation of fallbackData consumes
DrawsOf(r) ==
  [1..Len(tickerList(r.tickers)) -> [1..Len(r.analysts) -> RandomDraws]]

\* analysis.js:412-423: ticker_list.forEach over the first n tickers
RECURSIVE FallbackSignals(_, _, _)
FallbackSignals(ticker_list, n, analysts) ==
  IF n = 0 THEN <<>>
  ELSE ObjSet(FallbackSignals(ticker_list, n - 1, analysts),
              ticker_list[n],
              [overallSignal |-> "Neutral",
               confidence |-> 50,
               analysts |->
                 [i \in 1..Len(analysts) |->
                    [name |-> analystLabel(analysts[i]),
                     signal |-> "Neutral",
                     confidence |-> 50,
                     reasoning |-> [kind |-> "errorFallback",
                                    analyst |-> analystLabel(analysts[i]),
                                    ticker |-> ticker_list[n]]]]])

\* analysis.js:406-423; the date is the day of the run
fallbackResults(r) ==
  LET ticker_list == tickerList(r.tickers)
  IN  [tickers |-> ticker_list,
       date |-> "today",
       signals |-> FallbackSignals(ticker_list, Len(ticker_list), r.analysts)]

\* what is remembered of the run whose results are stored
ShownRun(r, path) ==
  [id |-> r.id, tickers |-> r.tickers, analysts |-> r.analysts,
   path |-> path, real |-> r.real, cancelled |-> r.cancelled]

\* a variant of TimerSuccess whose timer is started with the request and
\* not by the callback of its response
TimerSuccessEager(id) ==
  \E r \in requests :
    /\ r.id = id /\ r.phase \in {"pending", "timerOk"}
    /\ isAnalyzing' = FALSE
    /\ IF HasTickerAnalyses(r.data)
       THEN /\ analysisResults' = r.data
            /\ shown' = ShownRun(r, "data")
       ELSE /\ \E draws \in DrawsOf(r) :
                 analysisResults' = fallbackData(r, draws)
            /\ shown' = ShownRun(r, "fallbackData")
    /\ activeStep' = 2
    /\ isFormValid' = FormValid(2, tickers, selectedAnalysts)
    /\ requests' = requests \ {r}
    /\ UNCHANGED <<tickers, selectedAnalysts, analysisError, progress, runs,
                   server>>

\* analysis.js:369-396: the callback of the 3000 ms timer
TimerSuccess(id) ==
  \E r \in requests :
    /\ r.id = id /\ r.phase = "timerOk"
    /\ isAnalyzing' = FALSE
    /\ IF HasTickerAnalyses(r.data)
       THEN /\ analysisResults' = r.data
            /\ shown' = ShownRun(r, "data")
       ELSE /\ \E draws \in DrawsOf(r) :
                 analysisResults' = fallbackData(r, draws)
            /\ shown' = ShownRun(r, "fallbackData")
    /\ activeStep' = 2
    /\ isFormValid' = FormValid(2, tickers, selectedAnalysts)
    /\ requests' = requests \ {r}
    /\ UNCHANGED <<tickers, selectedAnalysts, analysisError, progress, runs,
                   server>>

\* analysis.js:405-428: the callback of the 5000 ms timer
TimerError(id) ==
  \E r \in requests :
    /\ r.id = id /\ r.phase = "timerErr"
    /\ isAnalyzing' = FALSE
    /\ analysisResults' = fallbackResults(r)
    /\ shown' = ShownRun(r, "fallbackResults")
    /\ activeStep' = 2
    /\ isFormValid' = FormValid(2, tickers, selectedAnalysts)
    /\ requests' = requests \ {r}
    /\ UNCHANGED <<tickers, selectedAnalysts, analysisError, progress, runs,
                   server>>

(***************************************************************************)
(* What the progress view presents (AnalysisProgress)                      *)
(***************************************************************************)
\* analysis.js:1249-1256, 1290-1310: tickers.forEach / analysts.forEach over
\* the tickers prop, tickers.split(',').map(t => t.trim()) (line 1211)
progressItems(tk, sel) ==
  LET ticker_list == tickerList(tk)
  IN  [n \in 1..(Len(ticker_list) * Len(sel)) |->
         <<ticker_list[((n - 1) \div Len(sel)) + 1],
           sel[((n - 1) % Len(sel)) + 1]>>]

(***************************************************************************)
(* What the results view presents (AnalysisResults)                        *)
(***************************************************************************)
RECURSIVE Flatten(_)
Flatten(ss) == IF ss = <<>> THEN <<>> ELSE Head(ss) \o Flatten(Tail(ss))

\* analysis.js:1396-1407: the rows of one ticker
ParsedRows(ticker, analyses) ==
  IF Array_isArray(analyses)
  THEN [i \in 1..Len(analyses.array) |->
          [ticker |-> ticker,
           analyst |-> getAnalystDisplayName(analyses.array[i].agent_name),
           signal |-> analyses.array[i].signal,
           confidence |-> analyses.array[i].confidence,
           reasoning |-> analyses.array[i].reasoning]]
  ELSE <<>>

\* analysis.js:1392-1411
parseResults(results) ==
  IF results = Null \/ ~HasTickerAnalyses(results) THEN <<>>
  ELSE LET o == results.ticker_analyses
       IN  Flatten([n \in 1..Len(o) |-> ParsedRows(o[n][1], o[n][2])])

\* Array.prototype.sort with (a, b) => b.confidence - a.confidence is
\* stable: row goes behind every row whose confidence is not smaller
RECURSIVE InsertByConfidence(_, _)
InsertByConfidence(sorted, row) ==
  IF sorted = <<>> THEN <<row>>
  ELSE IF Head(sorted).confidence >= row.confidence
       THEN <<Head(sorted)>> \o InsertByConfidence(Tail(sorted), row)
       ELSE <<row>> \o sorted

\* analysis.js:1446-1457 with the initial filterSignal 'all' and sortBy
\* 'confidence' (lines 1373-1374): a sorted copy, analysisData is not changed
RECURSIVE sortedData(_)
sortedData(rows) ==
  IF rows = <<>> THEN <<>>
  ELSE InsertByConfidence(sortedData(SubSeq(rows, 1, Len(rows) - 1)),
                          rows[Len(rows)])

(***************************************************************************)
(* The response post-processing of runAnalysis (src/unnamed/part_004)      *)
(***************************************************************************)
\* a variant of EnsureOverall without the test on the number of keys
EnsureOverallAlways(analysis) ==
  IF "signals" \in DOMAIN analysis
  THEN [analysis EXCEPT !.signals = ObjSet(@, "overall", @[1][2])]
  ELSE analysis

\* a variant of EnsureOverall that does what the comment of part_004:73
\* announces: the overall signal is the strongest analyst signal
EnsureOverallStrongest(analysis) ==
  IF "signals" \in DOMAIN analysis
  THEN LET sg == analysis.signals
           analystKeys == {i \in 1..Len(sg) : sg[i][1] # "overall"}
           strongest ==
             CHOOSE i \in analystKeys :
               \A j \in analystKeys :
                  \/ sg[i][2].confidence > sg[j][2].confidence
                  \/ (sg[i][2].confidence = sg[j][2].confidence /\ i <= j)
       IN  [analysis EXCEPT !.signals = ObjSet(@, "overall", sg[strongest][2])]
  ELSE analysis

\* a variant of EnsureOverall that sets the overall signal to the signal of
\* the first analyst whenever an analyst has a signal
EnsureOverallFirstAnalyst(analysis) ==
  IF "signals" \in DOMAIN analysis
     /\ \E i \in 1..Len(analysis.signals) : analysis.signals[i][1] # "overall"
  THEN LET sg == analysis.signals
           first == CHOOSE i \in 1..Len(sg) :
                      /\ sg[i][1] # "overall"
                      /\ \A j \in 1..(i - 1) : sg[j][1] = "overall"
       IN  [analysis EXCEPT !.signals = ObjSet(@, "overall", sg[first][2])]
  ELSE analysis

\* part_004:75-82: one ticker; signals is an object keyed by analyst
EnsureOverall(analysis) ==
  IF "signals" \in DOMAIN analysis /\ Len(analysis.signals) = 1
  THEN [analysis EXCEPT !.signals = ObjSet(@, "overall", @[1][2])]
  ELSE analysis

\* part_004:72-86
runAnalysis(data) ==
  IF data # Null /\ HasTickerAnalyses(data)
  THEN [data EXCEPT !.ticker_analyses =
          [n \in 1..Len(@) |-> <<@[n][1], EnsureOverall(@[n][2])>>]]
  ELSE data

(***************************************************************************)
(* Specification                                                           *)
(***************************************************************************)
Next ==
  \/ ChangeTickers
  \/ handleNext
  \/ handleBack
  \/ NewAnalysis
  \/ CancelRun
  \/ \E a \in Range(analystOptions) : handleAnalystToggle(a)
  \/ \E c \in DOMAIN analystCategories : handleCategorySelectAll(c)
  \/ handleSelectAllAnalysts
  \/ StartAnalysis
  \/ \E id \in RunIds : FetchResolve(id)
  \/ \E id \in RunIds : FetchResolveWithoutAnalyses(id)
  \/ \E id \in RunIds : FetchReject(id)
  \/ \E id \in RunIds : TimerSuccess(id)
  \/ \E id \in RunIds : TimerError(id)

Spec == Init /\ [][Next]_vars

\* setTimeout callbacks always run; nothing makes the backend answer
FairSpec ==
  /\ Spec
  /\ \A id \in RunIds : WF_vars(TimerSuccess(id))
  /\ \A id \in RunIds : WF_vars(TimerError(id))

(***************************************************************************)
(* The wizard used for one analysis after the other: one run more than in  *)
(* Spec, with few ticker inputs                                            *)
(***************************************************************************)
\* "" and "A"
RerunInputs == { <<>>, <<"A">> }

ChangeTickersRerun ==
  /\ WizardShown /\ activeStep = 0
  /\ \E v \in RerunInputs : v # tickers /\ SetTickers(v)

RerunIds == 1..(MaxRuns + 1)

StartAnalysisAgain ==
  /\ runs < MaxRuns + 1
  /\ handleStartAnalysis

RerunNext ==
  \/ ChangeTickersRerun
  \/ handleNext
  \/ handleBack
  \/ NewAnalysis
  \/ CancelRun
  \/ \E a \in Range(analystOptions) : handleAnalystToggle(a)
  \/ \E c \in DOMAIN analystCategories : handleCategorySelectAll(c)
  \/ handleSelectAllAnalysts
  \/ StartAnalysisAgain
  \/ \E id \in RerunIds : FetchResolve(id)
  \/ \E id \in RerunIds : FetchResolveWithoutAnalyses(id)
  \/ \E id \in RerunIds : FetchReject(id)
  \/ \E id \in RerunIds : TimerSuccess(id)
  \/ \E id \in RerunIds : TimerError(id)

RerunSpec == Init /\ [][RerunNext]_vars

(***************************************************************************)
(* The ticker field typed character by character, for the parser           *)
(***************************************************************************)
TypeCharacter(c) ==
  /\ WizardShown /\ activeStep = 0
  /\ Len(tickers) < MaxRawLen
  /\ SetTickers(Append(tickers, c))

DeleteCharacter ==
  /\ WizardShown /\ activeStep = 0
  /\ tickers # <<>>
  /\ SetTickers(SubSeq(tickers, 1, Len(tickers) - 1))

\* a whole string pasted into the field
PasteTickers ==
  /\ WizardShown /\ activeStep = 0
  /\ \E v \in RawInputs \cup {ExampleInput} : v # tickers /\ SetTickers(v)

ParseNext ==
  \/ \E c \in Chars : TypeCharacter(c)
  \/ DeleteCharacter
  \/ PasteTickers

ParseSpec == Init /\ [][ParseNext]_vars

(***************************************************************************)
(* The ticker field filled by the suggestion chips and emptied by the      *)
(* ticker chips                                                            *)
(***************************************************************************)
\* the symbols of stockSuggestions (analysis.js:117-156) kept in the model:
\* distinct, upper-case, without comma or whitespace
StockSymbols ==
  { <<"A">>, <<"B">>, <<"C">>, <<"D">>, <<"A", "B">>, <<"C", "D">> }

\* Array.prototype.join(', ')
RECURSIVE JoinCommaSpace(_)
JoinCommaSpace(ts) ==
  IF ts = <<>> THEN <<>>
  ELSE IF Len(ts) = 1 THEN Head(ts)
       ELSE Head(ts) \o <<",", " ">> \o JoinCommaSpace(Tail(ts))

\* currentTickers.filter(t => t !== ticker)
RECURSIVE FilterOut(_, _)
FilterOut(ts, ticker) ==
  IF ts = <<>> THEN <<>>
  ELSE IF Head(ts) # ticker
       THEN <<Head(ts)>> \o FilterOut(Tail(ts), ticker)
       ELSE FilterOut(Tail(ts), ticker)

\* analysis.js:752-754
cannotAdd(symbol) ==
  LET isAlreadySelected == symbol \in Range(parseTickerInput(tickers))
      isAtLimit == Len(currentTickers) >= 3
  IN  isAlreadySelected \/ isAtLimit

\* a variant of SuggestionClick whose chip is never disabled
SuggestionClickAlways(symbol) ==
  /\ WizardShown /\ activeStep = 0
  /\ SetTickers(IF tickers # <<>> THEN tickers \o <<",", " ">> \o symbol
                ELSE symbol)

\* analysis.js:763-767: the onClick of a suggestion chip (the chip is
\* disabled when cannotAdd, and the handler tests it again)
SuggestionClick(symbol) ==
  /\ WizardShown /\ activeStep = 0
  /\ ~cannotAdd(symbol)
  /\ SetTickers(IF tickers # <<>> THEN tickers \o <<",", " ">> \o symbol
                ELSE symbol)

\* analysis.js:662-665: the onDelete of the chip of ticker
TickerChipDelete(ticker) ==
  /\ WizardShown /\ activeStep = 0
  /\ ticker \in Range(currentTickers)
  /\ LET newTickers == FilterOut(currentTickers, ticker)
     IN  SetTickers(JoinCommaSpace(newTickers))

ChipNext ==
  \/ \E symbol \in StockSymbols : SuggestionClick(symbol)
  \/ \E ticker \in StockSymbols : TickerChipDelete(ticker)

ChipSpec == Init /\ [][ChipNext]_vars

(***************************************************************************)
(* The orchestration engine behind POST /api/analysis: TaskScheduler,      *)
(* ProgressTracker, ResultAggregator and FallbackGenerator.  Its code is   *)
(* not part of the sources; it is modelled from sections 3, 4.2 to 4.5, 5  *)
(* and 6 of the specification.                                             *)
(***************************************************************************)
\* the analysts of the registry that a request may name
MaxPanel == 2
\* the fixed cap of the worker pool
WorkerCap == 2

\* the state of the wizard
client == <<activeStep, tickers, selectedAnalysts, isAnalyzing, analysisError,
            progress, analysisResults, isFormValid, requests, runs, shown>>

\* AnalystRegistry: the ids of the catalog (analysis.js:84-114)
AnalystRegistry ==
  <<"warren_buffett_agent", "cathie_wood_agent", "charlie_munger_agent",
    "phil_fisher_agent", "ben_graham_agent", "bill_ackman_agent",
    "peter_lynch_agent">>

\* the analyst selections of a request: lists without repetition
Panels ==
  LET ids == Range(SubSeq(AnalystRegistry, 1, Min(MaxPanel, 7)))
  IN  {s \in UNION {[1..n -> ids] : n \in 0..Cardinality(ids)} :
         NoDuplicates(s)}

TaskStatus == {"Pending", "Running", "Succeeded", "Failed", "TimedOut"}
Terminal == {"Succeeded", "Failed", "TimedOut"}

\* the keys of AnalysisRun.tasks
TaskKeys(r) == {<<t, a>> : t \in Range(r.tickers), a \in Range(r.analysts)}

\* ProgressTracker.update(taskKey, percent, message); the table is keyed by
\* (analyst, ticker)
update(table, p, percent, message) ==
  [k \in DOMAIN table \cup {<<p[2], p[1]>>} |->
     IF k = <<p[2], p[1]>> THEN [percent |-> percent, message |-> message]
     ELSE table[k]]

\* the size of the worker pool: min(taskCount, cap)
Concurrency(r) == Min(Len(r.tickers) * Len(r.analysts), WorkerCap)

RunningTasks == {p \in DOMAIN tasks : tasks[p].status = "Running"}
AllTerminal(ts) == \A p \in DOMAIN ts : ts[p].status \in Terminal

\* the next task the scheduler hands to a worker, in the order of TaskOrder
NextPending(r, ts) ==
  LET order == TaskOrder(r.tickers, r.analysts)
      n == CHOOSE i \in 1..Len(order) :
             /\ ts[order[i]].status = "Pending"
             /\ \A j \in 1..(i - 1) : ts[order[j]].status # "Pending"
  IN  order[n]

\* the request is served: validation (400) or the creation of the run, with
\* one Pending task per (ticker, analyst) pair
CreateRun(raw, sel) ==
  /\ analysisRun = Null /\ response = Null
  /\ IF BackendAccepts([tickers |-> raw, analysts |-> sel])
     THEN LET r == [tickers |-> TickerSetParse(raw), analysts |-> sel]
          IN  /\ analysisRun' = r
              /\ tasks' = [p \in TaskKeys(r) |->
                             [status |-> "Pending", result |-> Null]]
              /\ tracker' = <<>>
              /\ UNCHANGED response
     ELSE /\ response' = [error |-> 400]
          /\ UNCHANGED <<analysisRun, tasks, tracker>>
  /\ UNCHANGED <<client, votes, overall, rt>>

\* a worker takes the next task: Pending -> Running immediately before the
\* runtime is invoked
TaskStart(p) ==
  /\ analysisRun # Null /\ response = Null
  /\ \E q \in DOMAIN tasks : tasks[q].status = "Pending"
  /\ p = NextPending(analysisRun, tasks)
  /\ Cardinality(RunningTasks) < Concurrency(analysisRun)
  /\ tasks' = [tasks EXCEPT ![p].status = "Running"]
  /\ tracker' = update(tracker, p, 10, "started")
  /\ UNCHANGED <<client, analysisRun, response, votes, overall, rt>>

\* a worker may complete task p: the task is Running and the run is open
CanComplete(p) ==
  /\ analysisRun # Null /\ response = Null
  /\ p \in DOMAIN tasks /\ tasks[p].status = "Running"

\* the completion of a task with the given status and result
Complete(p, status, result, message) ==
  /\ tasks' = [tasks EXCEPT ![p] = [status |-> status, result |-> result]]
  /\ tracker' = update(tracker, p, 100, message)
  /\ UNCHANGED <<client, analysisRun, response, votes, overall, rt>>

\* AgentRuntime.analyze returns a Signal: Running -> Succeeded
TaskSucceed(p) ==
  /\ CanComplete(p)
  /\ \E sig \in Signals, conf \in ConfidenceSamples :
       Complete(p, "Succeeded", AgentEntry(p[1], p[2], sig, conf), "done")

\* a variant of TaskFail that puts a failed task back in the queue
TaskFailRequeues(p) ==
  /\ CanComplete(p)
  /\ tasks' = [tasks EXCEPT ![p] = [status |-> "Pending", result |-> Null]]
  /\ tracker' = update(tracker, p, 100, "failed")
  /\ UNCHANGED <<client, analysisRun, response, votes, overall, rt>>

\* a variant of TaskFail that fails the siblings still to be completed too
TaskFailAbortsSiblings(p) ==
  /\ CanComplete(p)
  /\ tasks' = [q \in DOMAIN tasks |->
                 IF q = p \/ tasks[q].status \notin Terminal
                 THEN [status |-> "Failed", result |-> Null]
                 ELSE tasks[q]]
  /\ tracker' = update(tracker, p, 100, "failed")
  /\ UNCHANGED <<client, analysisRun, response, votes, overall, rt>>

\* AgentRuntime.analyze fails: Running -> Failed
TaskFail(p) ==
  /\ CanComplete(p)
  /\ Complete(p, "Failed", Null, "failed")

\* a variant of TaskTimeout that clears the progress of the task
TaskTimeoutClearsProgress(p) ==
  /\ CanComplete(p)
  /\ tasks' = [tasks EXCEPT ![p] = [status |-> "TimedOut", result |-> Null]]
  /\ tracker' = update(tracker, p, 0, "timed out")
  /\ UNCHANGED <<client, analysisRun, response, votes, overall, rt>>

\* the per-task timeout elapses: Running -> TimedOut
TaskTimeout(p) ==
  /\ CanComplete(p)
  /\ Complete(p, "TimedOut", Null, "timed out")

\* ResultAggregator: the entry of a terminal task; a failed or timed-out
\* task is replaced by a neutral Signal of confidence 0
TerminalEntry(p, task) ==
  IF task.status = "Succeeded" THEN task.result
  ELSE [agent_name |-> p[2], signal |-> "Neutral", confidence |-> 0,
        reasoning |-> [kind |-> "failed", analyst |-> p[2], ticker |-> p[1],
                       cause |-> task.status]]

\* FallbackGenerator: the Signal synthesized for a task that is not terminal
BackfillEntry(p) ==
  [agent_name |-> p[2], signal |-> "Neutral", confidence |-> 50,
   reasoning |-> [kind |-> "fallback", analyst |-> p[2], ticker |-> p[1]]]

\* the response payload of section 6: per ticker, in the order of the
\* tickers, the entries of the analysts in selection order
Payload(r, entry, partial) ==
  [ticker_analyses |->
     [n \in 1..Len(r.tickers) |->
        <<r.tickers[n],
          Arr([i \in 1..Len(r.analysts) |->
                 entry[<<r.tickers[n], r.analysts[i]>>]])>>],
   partial |-> partial]

\* ResultAggregator.aggregate(run)
aggregate(r, ts) ==
  Payload(r, [p \in DOMAIN ts |-> TerminalEntry(p, ts[p])], FALSE)

\* FallbackGenerator.fallback(run): completed tasks keep their results, the
\* unfinished remainder is backfilled
fallback(r, ts) ==
  Payload(r, [p \in DOMAIN ts |->
                IF ts[p].status \in Terminal THEN TerminalEntry(p, ts[p])
                ELSE BackfillEntry(p)], TRUE)

\* all tasks are terminal: the response is produced by the aggregator
Respond ==
  /\ analysisRun # Null /\ response = Null
  /\ AllTerminal(tasks)
  /\ response' = aggregate(analysisRun, tasks)
  /\ UNCHANGED <<client, analysisRun, tasks, tracker, votes, overall, rt>>

\* the run-level deadline elapses with tasks that are not terminal: they are
\* closed as TimedOut and the response is produced by the fallback generator
RunDeadline ==
  /\ analysisRun # Null /\ response = Null
  /\ ~AllTerminal(tasks)
  /\ response' = fallback(analysisRun, tasks)
  /\ tasks' = [p \in DOMAIN tasks |->
                 IF tasks[p].status \in Terminal THEN tasks[p]
                 ELSE [status |-> "TimedOut", result |-> Null]]
  /\ tracker' = [k \in {<<p[2], p[1]>> : p \in DOMAIN tasks} |->
                   IF tasks[<<k[2], k[1]>>].status \in Terminal THEN tracker[k]
                   ELSE [percent |-> 100, message |-> "timed out"]]
  /\ UNCHANGED <<client, analysisRun, votes, overall, rt>>

\* the pairs a request may name
AllTaskKeys ==
  {<<t, a>> : t \in UNION {Range(TickerSetParse(raw)) : raw \in RawInputs},
              a \in Range(AnalystRegistry)}

SchedNext ==
  \/ \E raw \in RawInputs, sel \in Panels : CreateRun(raw, sel)
  \/ \E p \in AllTaskKeys : TaskStart(p)
  \/ \E p \in AllTaskKeys : TaskSucceed(p)
  \/ \E p \in AllTaskKeys : TaskFail(p)
  \/ \E p \in AllTaskKeys : TaskTimeout(p)
  \/ Respond
  \/ RunDeadline

SchedSpec == Init /\ [][SchedNext]_vars

(***************************************************************************)
(* The overall signal of a ticker (ResultAggregator, section 4.4 of the    *)
(* specification) and its way through runAnalysis.  The per-ticker object  *)
(* has the shape runAnalysis reads (part_004:75-81): signals, an object    *)
(* keyed by analyst, with the key overall.                                 *)
(***************************************************************************)
\* the number of analysts whose signals are aggregated for one ticker
MaxVoters == 3
\* the confidences of the collected signals
VoteConfidences == {0, 50, 80}

\* the number of votes for direction d
CountVotes(vs, d) == Cardinality({i \in 1..Len(vs) : vs[i].signal = d})

\* the sum of the confidences of the votes for direction d
RECURSIVE SumConfidence(_, _)
SumConfidence(vs, d) ==
  IF vs = <<>> THEN 0
  ELSE (IF Head(vs).signal = d THEN Head(vs).confidence ELSE 0)
       + SumConfidence(Tail(vs), d)

\* multi-analyst rule: the majority direction, Neutral on a tie
MajorityDirection(vs) ==
  LET buy == CountVotes(vs, "Buy")
      sell == CountVotes(vs, "Sell")
      neutral == CountVotes(vs, "Neutral")
  IN  IF buy > sell /\ buy > neutral THEN "Buy"
      ELSE IF sell > buy /\ sell > neutral THEN "Sell"
      ELSE "Neutral"

\* the mean confidence of the votes for direction d, as an integer (rounded
\* to the nearest); 0 when no analyst voted for d
MeanConfidence(vs, d) ==
  LET count == CountVotes(vs, d)
  IN  IF count = 0 THEN 0
      ELSE (2 * SumConfidence(vs, d) + count) \div (2 * count)

\* the Signal of a vote
SignalOf(v) ==
  [signal |-> v.signal, confidence |-> v.confidence,
   reasoning |-> [kind |-> "analysis", analyst |-> v.agent_name]]

\* single-analyst rule (pass-through) and multi-analyst rule
OverallSignal(vs) ==
  IF Len(vs) = 1 THEN SignalOf(vs[1])
  ELSE [signal |-> MajorityDirection(vs),
        confidence |-> MeanConfidence(vs, MajorityDirection(vs)),
        reasoning |-> [kind |-> "overall"]]

\* the analysis object of one ticker
aggregateSignals(vs) ==
  [signals |-> [i \in 1..Len(vs) |-> <<vs[i].agent_name, SignalOf(vs[i])>>]
               \o << <<"overall", OverallSignal(vs)>> >>]

\* the terminal results of the analysts of one ticker are collected
CollectVotes ==
  /\ votes = <<>>
  /\ \E n \in 1..MaxVoters :
       \E v \in [1..n -> Signals \X VoteConfidences] :
          votes' = [i \in 1..n |->
                      [agent_name |-> AnalystRegistry[i],
                       signal |-> v[i][1], confidence |-> v[i][2]]]
  /\ UNCHANGED <<client, analysisRun, tasks, tracker, response, overall, rt>>

\* the aggregator builds the response for the ticker
AggregateTicker ==
  /\ votes # <<>> /\ overall = Null
  /\ overall' =
       [data |-> [ticker_analyses |->
                    << <<(<<"A">>), aggregateSignals(votes)>> >>],
        returned |-> FALSE]
  /\ UNCHANGED <<client, analysisRun, tasks, tracker, response, votes, rt>>

\* part_004:67-91: runAnalysis receives the response and returns it
ApiReturn ==
  /\ overall # Null /\ ~overall.returned
  /\ overall' = [data |-> runAnalysis(overall.data), returned |-> TRUE]
  /\ UNCHANGED <<client, analysisRun, tasks, tracker, response, votes, rt>>

AggNext ==
  \/ CollectVotes
  \/ AggregateTicker
  \/ ApiReturn

AggSpec == Init /\ [][AggNext]_vars

(***************************************************************************)
(* The round table behind POST /api/round-table (RoundTableCoordinator,    *)
(* section 4.6 of the specification).  Its code is not part of the        *)
(* sources: the page of the web UI is a placeholder and runRoundTable      *)
(* (part_004:103-111) only posts the request and returns the body.  The    *)
(* thresholds are chosen here, as section 9 asks: convergence is declared  *)
(* when all analysts agree on the direction, or when no confidence has     *)
(* moved by ConvergenceDelta or more since the round before.               *)
(***************************************************************************)
\* the number of debate rounds of a run
maxRounds == 3
\* the analysts at the table
MaxDebaters == 2
\* the confidences of the statements
DebateConfidences == {50, 80}
ConvergenceDelta == 10

\* the statements the analysts may make in one round
Statements(n) ==
  {[i \in 1..n |-> [agent_name |-> AnalystRegistry[i],
                    signal |-> v[i][1], confidence |-> v[i][2]]] :
     v \in [1..n -> Signals \X DebateConfidences]}

\* agreement ratio 1: all analysts share one direction
AllAgree(st) == \A i, j \in 1..Len(st) : st[i].signal = st[j].signal

Abs(x) == IF x < 0 THEN 0 - x ELSE x

\* the largest move of a confidence between two consecutive rounds
RECURSIVE ConfidenceMove(_, _, _)
ConfidenceMove(before, after, n) ==
  IF n = 0 THEN 0
  ELSE LET rest == ConfidenceMove(before, after, n - 1)
           move == Abs(after[n].confidence - before[n].confidence)
       IN  IF move > rest THEN move ELSE rest

\* the convergence test after a round
Convergent(before, after) ==
  \/ AllAgree(after)
  \/ ConfidenceMove(before, after, Len(after)) < ConvergenceDelta

\* the request is accepted: the run is in Opening
StartRoundTable ==
  /\ rt = Null
  /\ \E n \in 1..MaxDebaters :
       rt' = [state |-> "Opening", analysts |-> n, round |-> 0,
              statements |-> <<>>, history |-> <<>>, result |-> Null,
              converged |-> FALSE, returned |-> FALSE]
  /\ UNCHANGED <<client, analysisRun, tasks, tracker, response, votes,
                 overall>>

\* round 0: every analyst states an independent position
Opening ==
  /\ rt # Null /\ rt.state = "Opening"
  /\ \E st \in Statements(rt.analysts) :
       rt' = [rt EXCEPT !.state = "Debating", !.statements = st]
  /\ UNCHANGED <<client, analysisRun, tasks, tracker, response, votes,
                 overall>>

\* the state of the run after its round number round with statements st
AfterRound(round, before, st) ==
  IF Convergent(before, st) THEN "Converged"
  ELSE IF round = maxRounds THEN "Exhausted"
  ELSE "Debating"

\* a variant of DebateRound that compares the number of the round before
\* with maxRounds, and so debates one round more
DebateRoundOneMore ==
  /\ rt # Null /\ rt.state = "Debating"
  /\ \E st \in Statements(rt.analysts) :
       LET next == AfterRound(rt.round, rt.statements, st)
       IN  rt' = [rt EXCEPT
                    !.round = rt.round + 1,
                    !.statements = st,
                    !.history = Append(@,
                       [roundNumber |-> rt.round + 1,
                        convergenceDelta |->
                          ConfidenceMove(rt.statements, st, Len(st))]),
                    !.state = next,
                    !.converged = (next = "Converged"),
                    !.result = IF next = "Debating" THEN Null
                               ELSE OverallSignal(st)]
  /\ UNCHANGED <<client, analysisRun, tasks, tracker, response, votes,
                 overall>>

\* one debate round: every analyst answers with the statements of the round
\* before as context (an analyst that fails keeps its statement), the
\* ConsensusRound is recorded and the convergence test decides how the run
\* goes on
DebateRound ==
  /\ rt # Null /\ rt.state = "Debating"
  /\ \E st \in Statements(rt.analysts) :
       LET next == AfterRound(rt.round + 1, rt.statements, st)
       IN  rt' = [rt EXCEPT
                    !.round = rt.round + 1,
                    !.statements = st,
                    !.history = Append(@,
                       [roundNumber |-> rt.round + 1,
                        convergenceDelta |->
                          ConfidenceMove(rt.statements, st, Len(st))]),
                    !.state = next,
                    !.converged = (next = "Converged"),
                    !.result = IF next = "Debating" THEN Null
                               ELSE OverallSignal(st)]
  /\ UNCHANGED <<client, analysisRun, tasks, tracker, response, votes,
                 overall>>

\* part_004:103-111: runRoundTable returns the body of the response, the
\* final signal with the round history and the converged flag, as it is
runRoundTable ==
  /\ rt # Null /\ rt.state \in {"Converged", "Exhausted"} /\ ~rt.returned
  /\ rt' = [rt EXCEPT !.returned = TRUE]
  /\ UNCHANGED <<client, analysisRun, tasks, tracker, response, votes,
                 overall>>

RoundNext ==
  \/ StartRoundTable
  \/ Opening
  \/ DebateRound
  \/ runRoundTable

RoundSpec == Init /\ [][RoundNext]_vars

\* the coordinator runs its rounds one after the other and every call of
\* the runtime ends, by an answer, a failure or the per-task timeout
RoundFairSpec ==
  /\ RoundSpec
  /\ WF_vars(Opening)
  /\ WF_vars(DebateRound)
  /\ WF_vars(runRoundTable)

(***************************************************************************)
(* runAnalysis applied to the response bodies POST /api/analysis may       *)
(* carry (src/unnamed/part_004:67-91)                                      *)
(***************************************************************************)
\* the largest number of keys of a signals object
MaxSignalKeys == 2

\* the keys of a signals object: analyst ids and overall
SignalKeys == {AnalystRegistry[1], AnalystRegistry[2], "overall"}

\* the values of a signals object
SampleSignals ==
  { [signal |-> "Buy", confidence |-> 80],
    [signal |-> "Sell", confidence |-> 50] }

\* the signals objects with at most MaxSignalKeys keys
SignalMaps ==
  UNION { { m \in [1..n -> SignalKeys \X SampleSignals] :
              \A i, j \in 1..n : m[i][1] = m[j][1] => i = j }
          : n \in 0..MaxSignalKeys }

\* the data of one ticker: an array of entries, an object without signals,
\* or an object with signals
TickerData ==
  {Arr(<<>>), [error |-> "failed"]} \cup {[signals |-> m] : m \in SignalMaps}

\* response.data: null, a body without ticker_analyses, or the analyses of
\* one or two tickers
ResponseBodies ==
  {Null, BodyWithoutAnalyses}
  \cup {[ticker_analyses |-> << <<(<<"A">>), x>> >>] : x \in TickerData}
  \cup {[ticker_analyses |-> << <<(<<"A">>), x>>, <<(<<"B">>), y>> >>] :
          x \in TickerData, y \in TickerData}

\* part_004:69: api.post resolves with a response whose data is d
ApiPost(d) ==
  /\ response = Null /\ overall = Null
  /\ response' = [data |-> d]
  /\ overall' = [data |-> d, returned |-> FALSE]
  /\ UNCHANGED <<client, analysisRun, tasks, tracker, votes, rt>>

PostNext ==
  \/ \E d \in ResponseBodies : ApiPost(d)
  \/ ApiReturn

PostSpec == Init /\ [][PostNext]_vars

(***************************************************************************)
(* Properties                                                              *)
(***************************************************************************)
\* the (ticker, analyst) pairs a run was requested for
RequestedPairs(run) ==
  {<<t, a>> : t \in Range(parseTickerInput(run.tickers)),
              a \in Range(run.analysts)}

\* the number of distinct tickers of the parsed ticker list
DistinctTickers(raw) == Cardinality(Range(parseTickerInput(raw)))

\* C1: a request with more than 3 distinct tickers is rejected (validation
\* fails, the ticker step is invalid, no request is sent), and one with 1 to
\* 3 distinct tickers is not rejected by the ticker cap, however often a
\* ticker is repeated.
C1_TickerCapCountsDistinct ==
  /\ DistinctTickers(tickers) > 3 =>
       /\ ValidationError(tickers, selectedAnalysts) = ErrTooMany
       /\ ~FormValid(0, tickers, selectedAnalysts)
  /\ \A r \in requests : DistinctTickers(r.tickers) <= 3
  /\ DistinctTickers(tickers) \in 1..3 =>
       /\ ValidationError(tickers, selectedAnalysts) # ErrTooMany
       /\ FormValid(0, tickers, selectedAnalysts)

\* C2: the parser returns a list without duplicates whose elements are
\* non-empty, trimmed, upper-case and free of separators, in first-seen
\* order; the example input yields [A, B]; parsing the comma-joined output of
\* a parse returns the same list.
C2_ParserContract ==
  LET p == parseTickerInput(tickers)
  IN  /\ NoDuplicates(p)
      /\ \A i \in 1..Len(p) :
           /\ p[i] # <<>>
           /\ trim(p[i]) = p[i]
           /\ toUpperCase(p[i]) = p[i]
           /\ \A j \in 1..Len(p[i]) : ~IsCommaOrSpace(p[i][j])
      /\ p = Dedupe(p)
      /\ parseTickerInput(JoinComma(p)) = p
      /\ tickers = ExampleInput => p = <<(<<"A">>), (<<"B">>)>>

\* C3: an input whose parsed ticker list is empty fails validation as an
\* empty ticker list: the ticker step is invalid, the wizard does not leave
\* the ticker step with it and no request is sent for it.
C3_EmptyTickerListRejected ==
  /\ parseTickerInput(tickers) = <<>> =>
       /\ ValidationError(tickers, selectedAnalysts) = ErrNoTicker
       /\ activeStep = 0
       /\ ~isFormValid
  /\ \A r \in requests : parseTickerInput(r.tickers) # <<>>

\* a rejected handleStartAnalysis changes nothing but the error message
RejectedStartChangesOnlyError ==
  (/\ WizardShown /\ activeStep = 1
   /\ ~validateInputs(tickers, selectedAnalysts)
   /\ analysisError' # analysisError)
  => UNCHANGED <<activeStep, tickers, selectedAnalysts, isAnalyzing, progress,
                 analysisResults, requests, runs, shown>>

\* C4: a run is created only after validation has passed: whenever a request
\* is in flight or the wizard is analyzing, the run has at least one and at
\* most 3 tickers and at least one analyst; a rejected start changes only the
\* error message and sends nothing.
C4_RunOnlyAfterValidation ==
  /\ [](\A r \in requests :
          /\ Len(parseTickerInput(r.tickers)) >= 1
          /\ Len(parseTickerInput(r.tickers)) <= 3
          /\ Len(r.analysts) >= 1)
  /\ [](isAnalyzing => requests # {} /\ progress # <<>>)
  /\ [][RejectedStartChangesOnlyError]_vars

\* the data of one ticker carries an overall equal to the entry of analyst a
OverallEquals(analysis, a) ==
  IF Array_isArray(analysis)
  THEN \E i, j \in 1..Len(analysis.array) :
         /\ analysis.array[i].agent_name = "overall"
         /\ analysis.array[j].agent_name = a
         /\ analysis.array[i].signal = analysis.array[j].signal
         /\ analysis.array[i].confidence = analysis.array[j].confidence
  ELSE IF "signals" \in DOMAIN analysis
  THEN /\ ObjHas(analysis.signals, "overall")
       /\ ObjHas(analysis.signals, a)
       /\ ObjGet(analysis.signals, "overall") = ObjGet(analysis.signals, a)
  ELSE /\ "overallSignal" \in DOMAIN analysis
       /\ \E j \in 1..Len(analysis.analysts) :
            /\ analysis.analysts[j].name = analystLabel(a)
            /\ analysis.overallSignal = analysis.analysts[j].signal
            /\ analysis.confidence = analysis.analysts[j].confidence

\* every ticker of a response carries an overall equal to analyst a
EveryTickerHasOverall(resp, a) ==
  LET o == IF HasTickerAnalyses(resp) THEN resp.ticker_analyses
           ELSE resp.signals
  IN  \A n \in 1..Len(o) : OverallEquals(o[n][2], a)

\* C5: with exactly one selected analyst, every ticker of the response
\* carries an overall entry whose signal and confidence are that analyst's:
\* in the response as runAnalysis returns it and in the results the wizard
\* stores.
C5_SingleAnalystOverall ==
  /\ \A r \in requests :
       (r.phase = "timerOk" /\ HasTickerAnalyses(r.data) /\ Len(r.analysts) = 1)
       => EveryTickerHasOverall(runAnalysis(r.data), r.analysts[1])
  /\ (shown # Null /\ analysisResults # Null) =>
       (Len(shown.analysts) = 1 =>
          EveryTickerHasOverall(analysisResults, shown.analysts[1]))

\* the rows presented for the pair (t, a)
PresentedFor(t, a) ==
  LET rows == parseResults(analysisResults)
  IN  {i \in 1..Len(rows) :
         rows[i].ticker = t /\ rows[i].analyst = getAnalystDisplayName(a)}

\* C6: when results are presented, the presented rows hold exactly one row
\* for every requested (ticker, analyst) pair of the run and no other row,
\* and the row of a pair whose work did not complete is Neutral.
C6_ResultsAlwaysComplete ==
  (ResultsShown /\ shown # Null /\ RequestedPairs(shown) # {}) =>
    LET rows == parseResults(analysisResults)
    IN  /\ \A p \in RequestedPairs(shown) :
             /\ Cardinality(PresentedFor(p[1], p[2])) = 1
             /\ p \notin DOMAIN shown.real =>
                  \A i \in PresentedFor(p[1], p[2]) : rows[i].signal = "Neutral"
        /\ Len(rows) = Cardinality(RequestedPairs(shown))

\* the entries a result object holds for the pair (t, a), as
\* <<signal, confidence>>, in either of the two shapes of a result
EntriesFor(results, t, a) ==
  IF HasTickerAnalyses(results)
  THEN LET rows == parseResults(results)
       IN  {<<rows[i].signal, rows[i].confidence>> :
              i \in {j \in 1..Len(rows) :
                       /\ rows[j].ticker = t
                       /\ rows[j].analyst = getAnalystDisplayName(a)}}
  ELSE IF ObjHas(results.signals, t)
  THEN LET as == ObjGet(results.signals, t).analysts
       IN  {<<as[i].signal, as[i].confidence>> :
              i \in {j \in 1..Len(as) : as[j].name = analystLabel(a)}}
  ELSE {}

\* C7: a fallback result keeps the real result of every task that completed
\* and holds a Neutral entry of confidence 50 for every other requested
\* pair, so that every requested pair has exactly one entry.
C7_FallbackKeepsCompleted ==
  (shown # Null /\ analysisResults # Null) =>
    (shown.path # "data" =>
       \A p \in RequestedPairs(shown) :
          EntriesFor(analysisResults, p[1], p[2]) =
            IF p \in DOMAIN shown.real
            THEN {<<shown.real[p].signal, shown.real[p].confidence>>}
            ELSE {<<"Neutral", 50>>})

\* the signals of the entries of a result object, in either shape
ResultSignals(results) ==
  IF HasTickerAnalyses(results)
  THEN LET rows == parseResults(results)
       IN  {rows[i].signal : i \in 1..Len(rows)}
  ELSE LET o == results.signals
       IN  UNION {{o[n][2].overallSignal} \cup
                  {o[n][2].analysts[i].signal : i \in 1..Len(o[n][2].analysts)} :
                  n \in 1..Len(o)}

\* C8: fallback generation is deterministic and neutral: the fallback data
\* of a run does not depend on anything but the run (two generations for the
\* same run agree), and every signal of a stored fallback result is Neutral.
C8_FallbackDeterministicNeutral ==
  /\ \A r \in requests :
       (r.phase = "timerOk" /\ ~HasTickerAnalyses(r.data)) =>
         \A d1, d2 \in DrawsOf(r) : fallbackData(r, d1) = fallbackData(r, d2)
  /\ (shown # Null /\ analysisResults # Null) =>
       (shown.path # "data" => ResultSignals(analysisResults) \subseteq {"Neutral"})

\* C9: every started run eventually produces a response: a run in progress
\* leads to a state in which the run is over and results are available.
C9_EveryRunResponds ==
  isAnalyzing ~> (~isAnalyzing /\ analysisResults # Null /\ requests = {})

\* C10: once the user has cancelled a run, the wizard is no longer analyzing
\* for it, and no result of a cancelled run is stored or displayed.
C10_CancelTerminatesRun ==
  /\ \A r \in requests : r.cancelled => ~isAnalyzing
  /\ shown # Null => ~shown.cancelled

\* no progress record of the wizard reads as merely started any more
ProgressAllDone ==
  \A a \in DOMAIN progress : \A t \in DOMAIN progress[a] :
     /\ progress[a][t].status # "started"
     /\ progress[a][t].percent # 10

\* C11: once the response of a run is produced (its body has arrived, or its
\* results are stored), every (ticker, analyst) task of the run is terminal:
\* no progress record of the run still reads as started, 10%.
C11_TasksTerminalAtResponse ==
  /\ \A r \in requests :
       (r.phase = "timerOk" /\ RequestedPairs(r) # {}) => ProgressAllDone
  /\ (shown # Null /\ shown.id = runs /\ ~isAnalyzing
      /\ RequestedPairs(shown) # {}) => ProgressAllDone

\* the position of a status on Pending -> Running -> terminal
StatusRank(status) ==
  CASE status = "Pending" -> 0
    [] status = "Running" -> 1
    [] OTHER -> 2

\* one step of the status of the tasks
StatusStepForward ==
  /\ (tasks = <<>> /\ tasks' # <<>>) =>
       \A p \in DOMAIN tasks' : tasks'[p].status = "Pending"
  /\ \A p \in DOMAIN tasks :
       /\ p \in DOMAIN tasks'
       /\ tasks'[p].status \in TaskStatus
       /\ StatusRank(tasks'[p].status) >= StatusRank(tasks[p].status)
       /\ tasks[p].status \in Terminal => tasks'[p] = tasks[p]
       /\ (tasks'[p].status = "Running" /\ tasks[p].status # "Running")
            => tasks[p].status = "Pending"
       /\ (tasks'[p].status \in {"Succeeded", "Failed"}
           /\ tasks[p].status # tasks'[p].status)
            => tasks[p].status = "Running"

PercentStepMonotonic ==
  \A k \in DOMAIN tracker :
     /\ k \in DOMAIN tracker'
     /\ tracker'[k].percent >= tracker[k].percent

\* C13: within a run, the percent recorded for an (analyst, ticker) key
\* never decreases from one update to the next (and no key is dropped);
\* nothing orders the progress of different keys.
C13_PercentMonotonicPerKey == [][PercentStepMonotonic]_vars

\* the position of a pair in the order the tasks are built
OrderIndex(r, p) ==
  LET order == TaskOrder(r.tickers, r.analysts)
  IN  CHOOSE n \in 1..Len(order) : order[n] = p

\* a task built later is done while a task built earlier is only started
C13_Witness ==
  /\ analysisRun # Null
  /\ \E p, q \in DOMAIN tasks :
       /\ OrderIndex(analysisRun, p) < OrderIndex(analysisRun, q)
       /\ <<p[2], p[1]>> \in DOMAIN tracker
       /\ <<q[2], q[1]>> \in DOMAIN tracker
       /\ tracker[<<p[2], p[1]>>].percent = 10
       /\ tracker[<<q[2], q[1]>>].percent = 100

\* the entry a response payload holds for the pair p
ResponseEntry(resp, p) ==
  LET o == resp.ticker_analyses
      n == CHOOSE i \in 1..Len(o) : o[i][1] = p[1]
      entries == o[n][2].array
      k == CHOOSE i \in 1..Len(entries) : entries[i].agent_name = p[2]
  IN  entries[k]

\* the failure or timeout of one task leaves every sibling as it is
FailureLeavesSiblings ==
  \A p \in DOMAIN tasks :
     (/\ tasks[p].status = "Running"
      /\ p \in DOMAIN tasks'
      /\ tasks'[p].status \in {"Failed", "TimedOut"}
      /\ response' = Null)
     => \A q \in DOMAIN tasks \ {p} :
          /\ q \in DOMAIN tasks'
          /\ tasks'[q] = tasks[q]
          /\ <<q[2], q[1]>> \in DOMAIN tracker =>
               tracker'[<<q[2], q[1]>>] = tracker[<<q[2], q[1]>>]

\* the response of a run is produced when all its tasks are terminal, or by
\* the run deadline
ResponseWaitsForTasks ==
  (analysisRun # Null /\ response = Null /\ response' # Null)
  => (AllTerminal(tasks) \/ response'.partial)

\* C14: the failure of one task never aborts or alters its siblings: the
\* step that fails a task changes no other task, the response holds for
\* every succeeded task the result its own runtime call returned, whatever
\* happened to the other tasks, and the response is produced only when all
\* tasks are terminal or the run deadline has elapsed.
C14_FailureIsolation ==
  /\ [][FailureLeavesSiblings]_vars
  /\ [][ResponseWaitsForTasks]_vars
  /\ [](analysisRun # Null /\ response # Null =>
          \A q \in DOMAIN tasks :
             tasks[q].status = "Succeeded" =>
               ResponseEntry(response, q) = tasks[q].result)

\* a complete response of a run in which a task failed and a task built
\* after it succeeded
C14_Witness ==
  /\ analysisRun # Null /\ response # Null
  /\ ~response.partial
  /\ \E p, q \in DOMAIN tasks :
       /\ OrderIndex(analysisRun, p) < OrderIndex(analysisRun, q)
       /\ tasks[p].status = "Failed"
       /\ tasks[q].status = "Succeeded"
       /\ ResponseEntry(response, q).signal = "Buy"

\* one step of the inputs of a run in progress
TaskSetFixed ==
  /\ (isAnalyzing \/ requests # {}) =>
       /\ tickers' = tickers
       /\ selectedAnalysts' = selectedAnalysts
  /\ \A r \in requests : \A r2 \in requests' :
       r2.id = r.id => (r2.tickers = r.tickers /\ r2.analysts = r.analysts)
  /\ (isAnalyzing /\ isAnalyzing') =>
       /\ DOMAIN progress' = DOMAIN progress
       /\ \A a \in DOMAIN progress : DOMAIN progress'[a] = DOMAIN progress[a]

\* C15: the task set of a run is fixed at creation: from the start of a run
\* until its results are stored, the ticker input and the analyst selection
\* do not change, the request keeps the tickers and analysts it was created
\* with, and no key is added to or removed from the progress table.
C15_TaskSetFixedAtCreation == [][TaskSetFixed]_vars

\* a run was cancelled: the wizard is back at the ticker step while the
\* analysis is still in progress
C15_Witness ==
  /\ isAnalyzing /\ activeStep = 0
  /\ \E r \in requests : r.cancelled /\ RequestedPairs(r) # {}

\* the normal form of a ticker: trimmed and upper-case
NormalTicker(t) == toUpperCase(trim(t))

\* the (ticker, analyst) pairs of the tasks the progress view lists
TaskPairs(tk, sel) ==
  LET items == progressItems(tk, sel)
  IN  [n \in 1..Len(items) |-> <<NormalTicker(items[n][1]), items[n][2]>>]

\* the (ticker, analyst) pairs of the entries of a result object, in either
\* of its two shapes
ResultPairs(results) ==
  IF HasTickerAnalyses(results)
  THEN LET rows == parseResults(results)
       IN  [n \in 1..Len(rows) |->
              <<NormalTicker(rows[n].ticker), rows[n].analyst>>]
  ELSE LET o == results.signals
       IN  Flatten([n \in 1..Len(o) |->
                      [i \in 1..Len(o[n][2].analysts) |->
                         <<NormalTicker(o[n][1]), o[n][2].analysts[i].name>>]])

\* C16: no task and no result entry is duplicated for the same (ticker,
\* analyst) pair, also when the raw input repeats a ticker: the tasks listed
\* while a run is in progress and the entries of the stored results name
\* every pair at most once (for a run that names at least one ticker).
C16_NoDuplicatePairs ==
  /\ (isAnalyzing /\ parseTickerInput(tickers) # <<>>) =>
       NoDuplicates(TaskPairs(tickers, selectedAnalysts))
  /\ (analysisResults # Null /\ shown # Null /\ RequestedPairs(shown) # {}) =>
       NoDuplicates(ResultPairs(analysisResults))

\* the analysts of the rows of ticker t, in the order of the rows
RECURSIVE AnalystsOfTicker(_, _)
AnalystsOfTicker(rows, t) ==
  IF rows = <<>> THEN <<>>
  ELSE IF Head(rows).ticker = t
       THEN <<Head(rows).analyst>> \o AnalystsOfTicker(Tail(rows), t)
       ELSE AnalystsOfTicker(Tail(rows), t)

\* the entries of every ticker of a result object name the analysts in the
\* order sel, in either of the two shapes of a result
EntriesInOrder(results, sel) ==
  IF HasTickerAnalyses(results)
  THEN LET o == results.ticker_analyses
           rows == parseResults(results)
       IN  \A n \in 1..Len(o) :
              /\ Array_isArray(o[n][2])
              /\ [i \in 1..Len(o[n][2].array) |-> o[n][2].array[i].agent_name]
                   = sel
              /\ AnalystsOfTicker(rows, o[n][1])
                   = [i \in 1..Len(sel) |-> getAnalystDisplayName(sel[i])]
  ELSE LET o == results.signals
       IN  \A n \in 1..Len(o) :
              [i \in 1..Len(o[n][2].analysts) |-> o[n][2].analysts[i].name]
                = [i \in 1..Len(sel) |-> analystLabel(sel[i])]

\* rows of the same ticker and of equal confidence are listed in the order
\* of the parsed rows
DisplayKeepsOrder(rows) ==
  LET listed == sortedData(rows)
      Pos(r) == CHOOSE k \in 1..Len(listed) : listed[k] = r
  IN  /\ Len(listed) = Len(rows)
      /\ \A i, j \in 1..Len(rows) :
           (/\ i < j
            /\ rows[i].ticker = rows[j].ticker
            /\ rows[i].confidence = rows[j].confidence)
           => Pos(rows[i]) < Pos(rows[j])

TopDirections(vs) ==
  {d \in Signals : \A e \in Signals : CountVotes(vs, d) >= CountVotes(vs, e)}

\* the overall signals a response holds, one per ticker
OverallSignals(data) ==
  LET o == data.ticker_analyses
  IN  [n \in 1..Len(o) |->
         IF "signals" \in DOMAIN o[n][2] /\ ObjHas(o[n][2].signals, "overall")
         THEN ObjGet(o[n][2].signals, "overall")
         ELSE Null]

Voters(vs, d) == {i \in 1..Len(vs) : vs[i].signal = d}

\* the sum of the confidences of the votes with the indices in S
RECURSIVE ConfidenceSum(_, _)
ConfidenceSum(vs, S) ==
  IF S = {} THEN 0
  ELSE LET i == CHOOSE j \in S : TRUE
       IN  vs[i].confidence + ConfidenceSum(vs, S \ {i})

\* c is the mean of the confidences of the votes in S, to the nearest
\* integer
IsMeanOf(c, vs, S) ==
  LET k == Cardinality(S)
      diff == c * k - ConfidenceSum(vs, S)
  IN  /\ 2 * diff <= k
      /\ 2 * diff >= 0 - k

RoundTableShape ==
  rt # Null =>
    /\ rt.state \in {"Opening", "Debating", "Converged", "Exhausted"}
    /\ rt.round \in 0..maxRounds
    /\ Len(rt.history) = rt.round
    /\ rt.converged <=> rt.state = "Converged"
    /\ rt.state = "Debating" => rt.round < maxRounds
    /\ rt.state = "Converged" => rt.round >= 1
    /\ (rt.round = 1 /\ AllAgree(rt.statements)) => rt.state = "Converged"
    /\ rt.state = "Exhausted" =>
         /\ rt.round = maxRounds
         /\ ~AllAgree(rt.statements)
         /\ rt.history[rt.round].convergenceDelta >= ConvergenceDelta
    /\ rt.state \in {"Converged", "Exhausted"} =>
         /\ rt.result # Null
         /\ Cardinality(TopDirections(rt.statements)) = 1 =>
              rt.result.signal \in TopDirections(rt.statements)
    /\ rt.returned => rt.state \in {"Converged", "Exhausted"}

\* a run that has ended stays as it ended
RoundTableFinal ==
  (rt # Null /\ rt.state \in {"Converged", "Exhausted"}) =>
     /\ rt'.state = rt.state
     /\ rt'.round = rt.round
     /\ rt'.result = rt.result
     /\ rt'.converged = rt.converged

\* C20: a round-table run always terminates after at most maxRounds debate
\* rounds in exactly one of Converged and Exhausted: it is Converged at
\* round 1 when all analysts agree on the direction in round 1, and it is
\* Exhausted, with the aggregate of the last round and the flag converged
\* false, when maxRounds rounds have passed without convergence; an ended
\* run does not change.
C20_RoundTableTerminates ==
  /\ []RoundTableShape
  /\ [][RoundTableFinal]_vars
  /\ (rt # Null) ~> (rt # Null /\ rt.state \in {"Converged", "Exhausted"}
                     /\ rt.returned)

\* a run of two analysts is Exhausted after maxRounds rounds: the analysts
\* still disagree and a confidence moved by 30 in the last round
C20_Witness ==
  /\ rt # Null /\ rt.state = "Exhausted" /\ rt.returned
  /\ rt.analysts = 2
  /\ rt.round = maxRounds
  /\ ~rt.converged
  /\ rt.statements[1].signal = "Buy" /\ rt.statements[2].signal = "Sell"
  /\ rt.result.signal = "Neutral"

\* the results step shows results and no analysis is running
ResultsStepHasResults ==
  activeStep = 2 => (analysisResults # Null /\ ~isAnalyzing)

\* a step that enters the results step is the callback of a timer of
\* handleStartAnalysis, and it stores the results of its run
ResultsStepEnteredByTimer ==
  (activeStep # 2 /\ activeStep' = 2) =>
     \E r \in requests :
        /\ r.phase \in {"timerOk", "timerErr"}
        /\ requests' = requests \ {r}
        /\ shown' # Null /\ shown'.id = r.id
        /\ analysisResults' # Null
        /\ analysisResults' =
             IF r.phase = "timerErr" THEN fallbackResults(r)
             ELSE IF HasTickerAnalyses(r.data) THEN r.data
             ELSE analysisResults'
        /\ ~isAnalyzing'

\* C21: whenever the wizard is at the results step (activeStep = 2),
\* analysisResults is not null and isAnalyzing is false; the results step
\* is entered only by a timer callback of handleStartAnalysis, which sets
\* the results in the same step.
C21_ResultsStepHasResults ==
  /\ []ResultsStepHasResults
  /\ [][ResultsStepEnteredByTimer]_vars

\* the results step shows the error fallback of the second analysis, which
\* the user had cancelled
C21_Witness ==
  /\ activeStep = 2
  /\ shown # Null /\ shown.id = MaxRuns + 1
  /\ shown.path = "fallbackResults" /\ shown.cancelled
  /\ analysisResults = fallbackResults(shown)

\* no two requests (with their timers) are in flight, and while one is in
\* flight the wizard with the start button is not rendered
OneRequestInFlight ==
  /\ Cardinality(requests) <= 1
  /\ requests # {} => (isAnalyzing /\ ~WizardShown)

\* an analysis starts only while none is running
StartsOnlyWhenIdle ==
  (\/ runs' # runs
   \/ \E r \in requests' : \A q \in requests : q.id # r.id
   \/ isAnalyzing' /\ ~isAnalyzing)
    => /\ ~isAnalyzing /\ WizardShown /\ requests = {}
       /\ runs' = runs + 1
       /\ \A r \in requests' : r.id = runs' /\ r.phase = "pending"

\* the results that are stored are those of the analysis started last
ResultsOfLastRun ==
  (shown' # shown) => (shown' # Null /\ shown'.id = runs)

\* C22: at most one analysis request is in flight at any time:
\* handleStartAnalysis can be triggered only while isAnalyzing is false,
\* also after the user pressed Cancel on a run whose request is pending,
\* so the results of two runs never interleave.
C22_OneRequestInFlight ==
  /\ []OneRequestInFlight
  /\ [][StartsOnlyWhenIdle]_vars
  /\ [][ResultsOfLastRun]_vars

\* the second analysis was cancelled while its request is pending: the
\* wizard is at step 0 and is not rendered
C22_Witness ==
  /\ runs = MaxRuns + 1
  /\ activeStep = 0 /\ isAnalyzing /\ ~WizardShown
  /\ \E r \in requests : r.id = runs /\ r.phase = "pending" /\ r.cancelled

\* the request whose results a step stores has settled before the step, and
\* the results are those of the way it settled
StoredAfterSettled ==
  (analysisResults' # analysisResults \/ shown' # shown
     \/ (activeStep' = 2 /\ activeStep # 2)) =>
     \E r \in requests :
        /\ r.id = shown'.id /\ r \notin requests'
        /\ r.phase \in {"timerOk", "timerErr"}
        /\ activeStep' = 2
        /\ r.phase = "timerErr" =>
             /\ analysisError = ErrRequest
             /\ analysisResults' = fallbackResults(r)
        /\ (r.phase = "timerOk" /\ HasTickerAnalyses(r.data)) =>
             analysisResults' = r.data
        /\ (r.phase = "timerOk" /\ ~HasTickerAnalyses(r.data)) =>
             \E draws \in DrawsOf(r) : analysisResults' = fallbackData(r, draws)

\* while the request of a run is pending or its timer runs, the results
\* view is not rendered; a rejected request has set its error message
NothingShownBeforeSettled ==
  /\ requests # {} => ~ResultsShown
  /\ \A r \in requests :
        /\ r.phase = "timerErr" => analysisError = ErrRequest
        /\ r.phase = "pending" => r.data = Null
        /\ (shown # Null) => shown.id < r.id

\* C23: the results of a run are never stored or displayed before the HTTP
\* request of that run has settled: analysisResults changes and activeStep
\* becomes 2 only after the request resolved (the data of the response, or
\* fallback data when ticker_analyses is absent) or was rejected (the error
\* message is set first, then the fallback results).
C23_ResultsAfterRequestSettled ==
  /\ [][StoredAfterSettled]_vars
  /\ []NothingShownBeforeSettled

\* the first request was rejected: its error message is set and its
\* fallback results are shown
C23_Witness ==
  /\ ResultsShown
  /\ shown.id = 1 /\ shown.path = "fallbackResults" /\ ~shown.cancelled
  /\ analysisError = ErrRequest
  /\ runs = 1 /\ requests = {}

ActiveStepInRange == activeStep \in {0, 1, 2}

\* the step grows without a timer callback (handleNext): from step 0 to
\* step 1, in the wizard, with a ticker field the step validation accepts
NextOnlyFromValidTickerStep ==
  (activeStep' > activeStep /\ requests' = requests) =>
     /\ activeStep = 0 /\ activeStep' = 1
     /\ WizardShown
     /\ isFormValid
     /\ trim(tickers) # <<>> /\ Len(parseTickerInput(tickers)) <= 3

\* the step shrinks: to 0, and in the wizard (handleBack) from step 1 only
BackOnlyFromStepOne ==
  (activeStep' < activeStep) =>
     /\ activeStep' = 0
     /\ WizardShown => activeStep = 1

\* C24: after any sequence of handleNext, handleBack, handleReset and
\* completions of handleStartAnalysis, activeStep is one of 0, 1, 2:
\* handleNext advances only from step 0 and only when the ticker step is
\* valid, handleBack is available at step 1 only, and activeStep is never
\* negative or greater than 2.
C24_ActiveStepInRange ==
  /\ []ActiveStepInRange
  /\ [][NextOnlyFromValidTickerStep]_vars
  /\ [][BackOnlyFromStepOne]_vars

\* the user went on to the analyst step with "A B", selected an analyst and
\* came back to the ticker step
C24_Witness ==
  /\ activeStep = 0 /\ WizardShown
  /\ tickers = <<"A", " ", "B">>
  /\ selectedAnalysts # <<>>
  /\ runs = 0

\* the run of request r passed validation with a parsed ticker list that is
\* neither empty nor has a ticker twice
CleanRun(r) ==
  /\ validateInputs(r.tickers, r.analysts)
  /\ parseTickerInput(r.tickers) # <<>>
  /\ NoDuplicates(parseTickerInput(r.tickers))

\* C25: for every input that passes validation, the ticker list used to
\* create the progress entries, to compute the overall progress and to
\* build the fallback results of a run is equal to the parsed ticker list
\* that validation checked (same split on commas and whitespace, same
\* upper-casing).
C25_RunUsesParsedTickerList ==
  /\ \A r \in requests :
        (r.phase = "pending" /\ CleanRun(r)) =>
           /\ tickerList(r.tickers) = parseTickerInput(r.tickers)
           /\ \A a \in DOMAIN progress :
                 DOMAIN progress[a] = Range(parseTickerInput(r.tickers))
           /\ \A n \in DOMAIN progressItems(tickers, selectedAnalysts) :
                 progressItems(tickers, selectedAnalysts)[n][1]
                    \in Range(parseTickerInput(r.tickers))
  /\ (shown # Null /\ shown.path = "fallbackResults" /\ CleanRun(shown)) =>
        analysisResults.tickers = parseTickerInput(shown.tickers)

\* a step of handleReset that has an effect: outside the wizard (results or
\* progress view) the step goes back to 0
ResetStep == ~WizardShown /\ activeStep # 0 /\ activeStep' = 0

\* C26: handleReset (used for 'new analysis' and for 'cancel') changes only
\* activeStep, setting it to 0: tickers, selectedAnalysts, isAnalyzing,
\* progress, analysisResults and analysisError are left unchanged, so an
\* error message or a result of the run before persists after the reset.
C26_ResetChangesOnlyActiveStep ==
  [][ResetStep =>
       UNCHANGED <<tickers, selectedAnalysts, isAnalyzing, progress,
                   analysisResults, analysisError, runs, shown>>]_vars

\* after 'new analysis' the wizard is at step 0 again, with the error
\* message and the fallback results of the rejected run
C26_Witness ==
  /\ activeStep = 0 /\ WizardShown
  /\ analysisError = ErrRequest
  /\ analysisResults # Null
  /\ shown # Null /\ analysisResults = fallbackResults(shown)
  /\ progress # <<>>
  /\ requests = {}

\* C27: starting from an empty ticker field and using only clicks on
\* suggestion chips and deletions of ticker chips, the parsed ticker list
\* always has at most 3 entries and no duplicates: a suggestion is added
\* only if it is not already present and fewer than 3 tickers are entered.
C27_ChipsKeepTickerListClean ==
  /\ [](Len(parseTickerInput(tickers)) <= 3)
  /\ []NoDuplicates(parseTickerInput(tickers))
  /\ [](Range(parseTickerInput(tickers)) \subseteq StockSymbols)
  /\ [][Len(parseTickerInput(tickers')) > Len(parseTickerInput(tickers)) =>
          /\ Len(parseTickerInput(tickers)) < 3
          /\ \E s \in StockSymbols \ Range(parseTickerInput(tickers)) :
                parseTickerInput(tickers') =
                  Append(parseTickerInput(tickers), s)]_vars

\* three tickers are entered, CD first: every suggestion chip is disabled
C27_Witness ==
  /\ tickers = <<"C", "D", ",", " ", "A", ",", " ", "B">>
  /\ parseTickerInput(tickers) = << <<"C", "D">>, <<"A">>, <<"B">> >>
  /\ \A s \in StockSymbols : cannotAdd(s)

\* every selected analyst is in the catalog and is selected once
SelectionWellFormed ==
  /\ NoDuplicates(selectedAnalysts)
  /\ Range(selectedAnalysts) \subseteq Range(analystOptions)

\* handleCategorySelectAll(c) leaves the analysts of the other categories
\* as they are, and selects the whole category or nothing of it
CategoryStepIsLocal ==
  \A c \in DOMAIN analystCategories :
     handleCategorySelectAll(c) =>
        LET inC == Range(analystCategories[c])
            others == Range(analystOptions) \ inC
        IN  /\ FilterIn(selectedAnalysts', others) =
                 FilterIn(selectedAnalysts, others)
            /\ IF inC \subseteq Range(selectedAnalysts)
               THEN Range(selectedAnalysts') \cap inC = {}
               ELSE inC \subseteq Range(selectedAnalysts')

\* handleSelectAllAnalysts empties the selection exactly when every analyst
\* of the catalog is selected, and selects the catalog otherwise
SelectAllStep ==
  handleSelectAllAnalysts =>
     /\ (selectedAnalysts' = <<>>) <=>
           (Range(selectedAnalysts) = Range(analystOptions))
     /\ selectedAnalysts' # <<>> => selectedAnalysts' = analystOptions

HasOneSignal(analysis) ==
  "signals" \in DOMAIN analysis /\ Len(analysis.signals) = 1

\* out is what runAnalysis may return for the body in: the same tickers,
\* and the data of every ticker that has not exactly one signal as it was
OnlyOneSignalTickersChange(in, out) ==
  IF in = Null \/ ~HasTickerAnalyses(in) THEN out = in
  ELSE /\ HasTickerAnalyses(out)
       /\ DOMAIN out = DOMAIN in
       /\ Len(out.ticker_analyses) = Len(in.ticker_analyses)
       /\ \A n \in 1..Len(in.ticker_analyses) :
             /\ out.ticker_analyses[n][1] = in.ticker_analyses[n][1]
             /\ ~HasOneSignal(in.ticker_analyses[n][2]) =>
                   out.ticker_analyses[n] = in.ticker_analyses[n]
             /\ HasOneSignal(in.ticker_analyses[n][2]) =>
                   /\ ObjHas(out.ticker_analyses[n][2].signals, "overall")
                   /\ ObjGet(out.ticker_analyses[n][2].signals, "overall")
                        = in.ticker_analyses[n][2].signals[1][2]

====
